---- MODULE Spec2Model ----
(***************************************************************************)
(* PharmaChain (src/main.rs): a map of drug batches and a set of recalled  *)
(* identifiers held in memory, loaded from pharma_data.json by new() and   *)
(* rewritten in full by save() after every mutation.                       *)
(*                                                                         *)
(* Texts (name, manufacturer, batch number, expiry date) are abstract      *)
(* tokens, written as integers.  A Uuid is a number of IDs; its text form  *)
(* (what serde writes and Uuid::parse_str reads) is a string.              *)
(***************************************************************************)
EXTENDS Integers, Sequences, FiniteSets, TLC

\* Number of distinct identifiers the generator can hand out.
MaxId == 2
\* Number of distinct argument tuples given to mint.
MaxInput == 2

\* The Uuid values: those Uuid::new_v4 may return, and those a caller may pass
\* to verify, recall and is_recalled, minted or not.
IDs == 1..MaxId

\* Process invocations of the program; each has its own PharmaChain.
Procs == {"p1", "p2"}

\* <<name, manufacturer, batch_number, expiry_date>>: the four fields of one
\* tuple differ from each other, and two tuples overlap in their tokens.
MintInputs == { <<k, k + 1, k + 2, k + 3>> : k \in 1..MaxInput }

VARIABLES
    doc,      \* pharma_data.json
    qr,       \* the qr_<id>.png files: file name -> payload
    chain,    \* chain[p]: the PharmaChain of process p
    st,       \* st[p]: "none" (not running) or "live" (new() has returned)
    issued,   \* the identifiers Uuid::new_v4 has returned so far
    last,     \* the last call: operation, arguments, result, what it did
    run       \* run[p]: the invocation of main in process p

vars == <<doc, qr, chain, st, issued, last, run>>

----------------------------------------------------------------------------
(* Data *)

DrugBatch(id, name, manufacturer, batch_number, expiry_date, recalled) ==
    [id |-> id, name |-> name, manufacturer |-> manufacturer,
     batch_number |-> batch_number, expiry_date |-> expiry_date,
     recalled |-> recalled]

PharmaChain(batches, recalls) == [batches |-> batches, recalls |-> recalls]

empty == PharmaChain(<<>>, {})

\* HashMap::insert: the value under k is set, replacing one already there.
insert(m, k, v) == [x \in DOMAIN m \cup {k} |-> IF x = k THEN v ELSE m[x]]

----------------------------------------------------------------------------
(* The persisted document *)

\* The hyphenated text of a Uuid, as serde writes it.
uuid_text(id) == ToString(id)

\* parse_str that takes a text denoting no identifier for any identifier.
parse_str_lenient(t) ==
    IF \E i \in IDs : uuid_text(i) = t
    THEN { i \in IDs : uuid_text(i) = t }
    ELSE IDs

\* Uuid::parse_str: the identifier a text denotes; {} when it denotes none.
parse_str(t) == { i \in IDs : uuid_text(i) = t }

bool_text(b) == IF b THEN "true" ELSE "false"

parse_bool(t) == { b \in BOOLEAN : bool_text(b) = t }

\* The elements of a HashSet in the order its iterator yields them.  The order
\* is unspecified; nothing in the program reads it, and one order is kept.
RECURSIVE iter(_)
iter(S) ==
    IF S = {} THEN <<>>
    ELSE LET x == CHOOSE y \in S : \A z \in S : y <= z
         IN  <<x>> \o iter(S \ {x})

\* A document: exists (the file is there), valid (it is the JSON text of an
\* object with the two fields), cut (it is what a failed write left of the
\* text save was writing), and the two fields.
NoDoc ==
    [exists |-> FALSE, valid |-> FALSE, cut |-> FALSE,
     batches |-> <<>>, recalls |-> <<>>]

\* A file found at the path that is no JSON text of a PharmaChain.
Corrupt ==
    [exists |-> TRUE, valid |-> FALSE, cut |-> FALSE,
     batches |-> <<>>, recalls |-> <<>>]

\* The file after open(truncate) and a write that did not complete: empty, or
\* the beginning of the text that was being written.
Truncated ==
    [exists |-> TRUE, valid |-> FALSE, cut |-> TRUE,
     batches |-> <<>>, recalls |-> <<>>]

batch_json(b) ==
    [id |-> uuid_text(b.id), name |-> b.name, manufacturer |-> b.manufacturer,
     batch_number |-> b.batch_number, expiry_date |-> b.expiry_date,
     recalled |-> bool_text(b.recalled)]

\* to_json with the recalls field left out of what is written.
to_json_no_recalls(c) ==
    [exists  |-> TRUE,
     valid   |-> TRUE,
     cut     |-> FALSE,
     batches |-> [k \in { uuid_text(i) : i \in DOMAIN c.batches } |->
                    batch_json(c.batches[CHOOSE i \in DOMAIN c.batches :
                                             uuid_text(i) = k])],
     recalls |-> <<>>]

\* serde_json::to_writer_pretty(&self): an object keyed by the identifiers'
\* texts, and the recalled identifiers as an array in iteration order.
to_json(c) ==
    [exists  |-> TRUE,
     valid   |-> TRUE,
     cut     |-> FALSE,
     batches |-> [k \in { uuid_text(i) : i \in DOMAIN c.batches } |->
                    batch_json(c.batches[CHOOSE i \in DOMAIN c.batches :
                                             uuid_text(i) = k])],
     recalls |-> [n \in DOMAIN iter(c.recalls) |->
                    uuid_text(iter(c.recalls)[n])]]

batch_ok(o) == parse_str(o.id) # {} /\ parse_bool(o.recalled) # {}

batch_from(o) ==
    DrugBatch(CHOOSE i \in parse_str(o.id) : TRUE, o.name, o.manufacturer,
              o.batch_number, o.expiry_date,
              CHOOSE b \in parse_bool(o.recalled) : TRUE)

\* serde_json::from_reader: {} for Err, {the PharmaChain} for Ok.
from_json(d) ==
    IF /\ d.valid
       /\ \A k \in DOMAIN d.batches : parse_str(k) # {} /\ batch_ok(d.batches[k])
       /\ \A n \in DOMAIN d.recalls : parse_str(d.recalls[n]) # {}
    THEN { PharmaChain(
             [i \in UNION { parse_str(k) : k \in DOMAIN d.batches } |->
                 batch_from(d.batches[uuid_text(i)])],
             UNION { parse_str(d.recalls[n]) : n \in DOMAIN d.recalls }) }
    ELSE {}

----------------------------------------------------------------------------
(* What the file system and the renderer may answer to one call *)

\* new(): the file opens and is read; File::open fails; or it opens and a read
\* made by from_reader fails.
LoadOutcomes == {"ok", "open_err", "read_err"}

\* save(): everything is written; OpenOptions::open fails; a write made while
\* serializing fails (the file is already truncated); or the last buffered
\* bytes fail to reach the file when the BufWriter is dropped.
SaveOutcomes == {"ok", "open_err", "write_err", "flush_err"}

\* generate_qr_code(): the image is written, or one of its two unwrap()s meets
\* an Err (QrCode::new, image.save).
QrOutcomes == {"ok", "err"}

----------------------------------------------------------------------------
(* PharmaChain's methods.  Each yields the new values of what it touches and *)
(* panic = TRUE when an expect() or unwrap() aborts the process.            *)

\* new with unwrap() in place of unwrap_or_else(|_| Self::empty()).
new_unwrap(d, io) ==
    IF d.exists
    THEN IF io = "open_err" \/ io = "read_err" \/ from_json(d) = {}
         THEN [panic |-> TRUE, chain |-> empty]
         ELSE [panic |-> FALSE, chain |-> CHOOSE c \in from_json(d) : TRUE]
    ELSE [panic |-> FALSE, chain |-> empty]

\* PharmaChain::new.  A file that exists and does not open panics; one that
\* from_reader returns Err for, a read error included, gives the empty chain.
new(d, io) ==
    IF d.exists
    THEN IF io = "open_err"
         THEN [panic |-> TRUE, chain |-> empty]
         ELSE [panic |-> FALSE,
               chain |-> IF io = "read_err" \/ from_json(d) = {} THEN empty
                         ELSE CHOOSE c \in from_json(d) : TRUE]
    ELSE [panic |-> FALSE, chain |-> empty]

\* PharmaChain::save.  The file is opened with create/write/truncate, wrapped
\* in a BufWriter and handed to serde_json::to_writer_pretty, which writes
\* and returns without flushing: the BufWriter is dropped inside it, and an
\* error of the flush made by the drop is discarded, so that expect() sees Ok.
\* save that keeps what the document holds and the chain does not.
save_merging(d, c, io) ==
    LET old    == IF from_json(d) = {} THEN empty
                  ELSE CHOOSE x \in from_json(d) : TRUE
        merged == PharmaChain(
                    [i \in DOMAIN old.batches \cup DOMAIN c.batches |->
                       IF i \in DOMAIN c.batches THEN c.batches[i]
                       ELSE old.batches[i]],
                    old.recalls \cup c.recalls)
    IN  CASE io = "ok"        -> [panic |-> FALSE, doc |-> to_json(merged)]
          [] io = "open_err"  -> [panic |-> TRUE,  doc |-> d]
          [] io = "write_err" -> [panic |-> TRUE,  doc |-> Truncated]
          [] io = "flush_err" -> [panic |-> FALSE, doc |-> Truncated]

save(d, c, io) ==
    CASE io = "ok"        -> [panic |-> FALSE, doc |-> to_json(c)]
      [] io = "open_err"  -> [panic |-> TRUE,  doc |-> d]
      [] io = "write_err" -> [panic |-> TRUE,  doc |-> Truncated]
      [] io = "flush_err" -> [panic |-> FALSE, doc |-> Truncated]

\* The text generate_qr_code encodes.
qr_data(b) == <<uuid_text(b.id), b.name, b.manufacturer, b.batch_number, b.expiry_date>>

\* PharmaChain::generate_qr_code: writes qr_<id>.png, or panics.
generate_qr_code(files, b, io) ==
    IF io = "ok"
    THEN [panic |-> FALSE, qr |-> insert(files, uuid_text(b.id), qr_data(b))]
    ELSE [panic |-> TRUE, qr |-> files]

\* mint_batch with the name and the manufacturer taken from each other's
\* argument.
mint_batch_swapped(c, d, files, id, a, sio, qio) ==
    LET batch == DrugBatch(id, a[2], a[1], a[3], a[4], FALSE)
        c1    == PharmaChain(insert(c.batches, id, batch), c.recalls)
        s     == save(d, c1, sio)
        q     == generate_qr_code(files, batch, qio)
    IN  IF s.panic
        THEN [panic |-> TRUE, saved |-> TRUE, chain |-> c1, doc |-> s.doc,
              qr |-> files]
        ELSE [panic |-> q.panic, saved |-> TRUE, chain |-> c1, doc |-> s.doc,
              qr |-> q.qr]

\* mint_batch that starts the recalled set afresh.
mint_batch_clears_recalls(c, d, files, id, a, sio, qio) ==
    LET batch == DrugBatch(id, a[1], a[2], a[3], a[4], FALSE)
        c1    == PharmaChain(
                   [k \in DOMAIN c.batches \cup {id} |->
                      IF k = id THEN batch
                      ELSE [c.batches[k] EXCEPT !.recalled = FALSE]], {})
        s     == save(d, c1, sio)
        q     == generate_qr_code(files, batch, qio)
    IN  IF s.panic
        THEN [panic |-> TRUE, saved |-> TRUE, chain |-> c1, doc |-> s.doc,
              qr |-> files]
        ELSE [panic |-> q.panic, saved |-> TRUE, chain |-> c1, doc |-> s.doc,
              qr |-> q.qr]

\* mint_batch that keys the batch by a constant instead of the fresh value.
mint_batch_fixed_key(c, d, files, id, a, sio, qio) ==
    LET batch == DrugBatch(1, a[1], a[2], a[3], a[4], FALSE)
        c1    == PharmaChain(insert(c.batches, 1, batch), c.recalls)
        s     == save(d, c1, sio)
        q     == generate_qr_code(files, batch, qio)
    IN  IF s.panic
        THEN [panic |-> TRUE, saved |-> TRUE, chain |-> c1, doc |-> s.doc,
              qr |-> files]
        ELSE [panic |-> q.panic, saved |-> TRUE, chain |-> c1, doc |-> s.doc,
              qr |-> q.qr]

\* PharmaChain::mint_batch with id the value of Uuid::new_v4().
mint_batch(c, d, files, id, a, sio, qio) ==
    LET batch == DrugBatch(id, a[1], a[2], a[3], a[4], FALSE)
        c1    == PharmaChain(insert(c.batches, id, batch), c.recalls)
        s     == save(d, c1, sio)
        q     == generate_qr_code(files, batch, qio)
    IN  IF s.panic
        THEN [panic |-> TRUE, saved |-> TRUE, chain |-> c1, doc |-> s.doc,
              qr |-> files]
        ELSE [panic |-> q.panic, saved |-> TRUE, chain |-> c1, doc |-> s.doc,
              qr |-> q.qr]

\* verify_batch that hides a recalled batch.
verify_batch_unrecalled_only(c, id) ==
    IF id \in DOMAIN c.batches /\ ~c.batches[id].recalled
    THEN {c.batches[id]} ELSE {}

\* PharmaChain::verify_batch: {} for None, {the batch} for Some.
verify_batch(c, id) ==
    IF id \in DOMAIN c.batches THEN {c.batches[id]} ELSE {}

\* recall_batch that sets the flag and forgets the set.
recall_batch_flag_only(c, d, id, sio) ==
    IF id \in DOMAIN c.batches
    THEN LET c1 == PharmaChain(
                     [c.batches EXCEPT ![id].recalled = TRUE], c.recalls)
             s  == save(d, c1, sio)
         IN  [panic |-> s.panic, ret |-> TRUE, saved |-> TRUE,
              chain |-> c1, doc |-> s.doc]
    ELSE [panic |-> FALSE, ret |-> FALSE, saved |-> FALSE,
          chain |-> c, doc |-> d]

\* recall_batch that saves whether or not the batch was found.
recall_batch_save_always(c, d, id, sio) ==
    LET c1 == IF id \in DOMAIN c.batches
              THEN PharmaChain([c.batches EXCEPT ![id].recalled = TRUE],
                               c.recalls \cup {id})
              ELSE c
        s  == save(d, c1, sio)
    IN  [panic |-> s.panic, ret |-> id \in DOMAIN c.batches, saved |-> TRUE,
         chain |-> c1, doc |-> s.doc]

\* recall_batch that keeps only the recalled batch in the map.
recall_batch_drops_others(c, d, id, sio) ==
    IF id \in DOMAIN c.batches
    THEN LET c1 == PharmaChain(
                     [k \in {id} |-> [c.batches[id] EXCEPT !.recalled = TRUE]],
                     c.recalls \cup {id})
             s  == save(d, c1, sio)
         IN  [panic |-> s.panic, ret |-> TRUE, saved |-> TRUE,
              chain |-> c1, doc |-> s.doc]
    ELSE [panic |-> FALSE, ret |-> FALSE, saved |-> FALSE,
          chain |-> c, doc |-> d]

\* recall_batch that puts the identifier in the set before looking it up.
recall_batch_marks_unknown(c, d, id, sio) ==
    IF id \in DOMAIN c.batches
    THEN LET c1 == PharmaChain(
                     [c.batches EXCEPT ![id].recalled = TRUE],
                     c.recalls \cup {id})
             s  == save(d, c1, sio)
         IN  [panic |-> s.panic, ret |-> TRUE, saved |-> TRUE,
              chain |-> c1, doc |-> s.doc]
    ELSE [panic |-> FALSE, ret |-> FALSE, saved |-> FALSE,
          chain |-> PharmaChain(c.batches, c.recalls \cup {id}), doc |-> d]

\* PharmaChain::recall_batch.
recall_batch(c, d, id, sio) ==
    IF id \in DOMAIN c.batches
    THEN LET c1 == PharmaChain(
                     [c.batches EXCEPT ![id].recalled = TRUE],
                     c.recalls \cup {id})
             s  == save(d, c1, sio)
         IN  [panic |-> s.panic, ret |-> TRUE, saved |-> TRUE,
              chain |-> c1, doc |-> s.doc]
    ELSE [panic |-> FALSE, ret |-> FALSE, saved |-> FALSE,
          chain |-> c, doc |-> d]

\* is_recalled that reads the batch's flag.
is_recalled_by_flag(c, id) ==
    id \in DOMAIN c.batches /\ c.batches[id].recalled

\* PharmaChain::is_recalled.
is_recalled(c, id) == id \in c.recalls

\* Uuid::new_v4: a random 122-bit value.  A value equal to one returned before
\* has probability 2^-122 and is taken not to occur.
new_v4 == IDs \ issued

----------------------------------------------------------------------------
(* The calls *)

\* One call as an observer sees it: the method, its arguments, whether it
\* panicked, whether it called save, what it returned, and what the file
\* system answered to its reading or writing of the document ("none" when it
\* did neither).
Call(op, p, id, input, panic, saved, retBool, retRec, io) ==
    [op |-> op, p |-> p, id |-> id, input |-> input, panic |-> panic,
     saved |-> saved, retBool |-> retBool, retRec |-> retRec, io |-> io]

\* What main has printed: nothing yet.
NoOut == [kind |-> "none", id |-> 0, rec |-> {}]

\* No invocation of main yet.
NoRun ==
    [args |-> <<"pharmachain">>, pc |-> "idle", out |-> NoOut,
     opened |-> FALSE, saved |-> FALSE]

Init ==
    /\ doc \in {NoDoc, Corrupt}
    /\ qr = <<>>
    /\ chain = [p \in Procs |-> empty]
    /\ st = [p \in Procs |-> "none"]
    /\ issued = {}
    /\ last = Call("init", "p1", 0, <<>>, FALSE, FALSE, FALSE, {}, "none")
    /\ run = [p \in Procs |-> NoRun]

\* A process that has panicked or returned from main is gone with its memory.
Gone(p) ==
    /\ st' = [st EXCEPT ![p] = "none"]
    /\ chain' = [chain EXCEPT ![p] = empty]

\* A process starts: main builds its chain with PharmaChain::new().
New(p) ==
    /\ st[p] = "none"
    /\ \E io \in LoadOutcomes :
         LET r == new(doc, io) IN
         /\ IF r.panic
            THEN UNCHANGED <<st, chain>>
            ELSE /\ st' = [st EXCEPT ![p] = "live"]
                 /\ chain' = [chain EXCEPT ![p] = r.chain]
         /\ last' = Call("new", p, 0, <<>>, r.panic, FALSE, FALSE, {},
                       IF doc.exists THEN io ELSE "none")
    /\ UNCHANGED <<doc, qr, issued>>

Mint(p) ==
    /\ st[p] = "live"
    /\ \E id \in new_v4, a \in MintInputs, sio \in SaveOutcomes, qio \in QrOutcomes :
         LET r == mint_batch(chain[p], doc, qr, id, a, sio, qio) IN
         /\ doc' = r.doc
         /\ qr' = r.qr
         /\ issued' = issued \cup {id}
         /\ IF r.panic
            THEN Gone(p)
            ELSE /\ chain' = [chain EXCEPT ![p] = r.chain]
                 /\ UNCHANGED st
         /\ last' = Call("mint", p, id, a, r.panic, r.saved, FALSE, {}, sio)

Verify(p) ==
    /\ st[p] = "live"
    /\ \E id \in IDs :
         last' = Call("verify", p, id, <<>>, FALSE, FALSE, FALSE,
                      verify_batch(chain[p], id), "none")
    /\ UNCHANGED <<doc, qr, chain, st, issued>>

Recall(p) ==
    /\ st[p] = "live"
    /\ \E id \in IDs, sio \in SaveOutcomes :
         LET r == recall_batch(chain[p], doc, id, sio) IN
         /\ doc' = r.doc
         /\ IF r.panic
            THEN Gone(p)
            ELSE /\ chain' = [chain EXCEPT ![p] = r.chain]
                 /\ UNCHANGED st
         /\ last' = Call("recall", p, id, <<>>, r.panic, r.saved, r.ret, {},
                       IF r.saved THEN sio ELSE "none")
    /\ UNCHANGED <<qr, issued>>

IsRecalled(p) ==
    /\ st[p] = "live"
    /\ \E id \in IDs :
         last' = Call("is_recalled", p, id, <<>>, FALSE, FALSE,
                      is_recalled(chain[p], id), {}, "none")
    /\ UNCHANGED <<doc, qr, chain, st, issued>>

\* main returns: the process ends.
Exit(p) ==
    /\ st[p] = "live"
    /\ Gone(p)
    /\ last' = Call("exit", p, 0, <<>>, FALSE, FALSE, FALSE, {}, "none")
    /\ UNCHANGED <<doc, qr, issued>>

\* One process at a time, as the program is meant to be used; the calls of
\* the library in any order.
Next ==
    \/ New("p1") /\ UNCHANGED run
    \/ Mint("p1") /\ UNCHANGED run
    \/ Verify("p1") /\ UNCHANGED run
    \/ Recall("p1") /\ UNCHANGED run
    \/ IsRecalled("p1") /\ UNCHANGED run
    \/ Exit("p1") /\ UNCHANGED run

Spec == Init /\ [][Next]_vars

----------------------------------------------------------------------------
(* Documents not written by this program *)

\* The chains a well-formed document can describe: any batches under any
\* keys, any recalled flags, and any set of identifiers, whether or not the
\* set agrees with the flags.  The text fields of the batches play no part
\* in what is read from them, so one choice of them stands for all.
AnyChains ==
    LET a == CHOOSE x \in MintInputs : TRUE
    IN  { PharmaChain([i \in K |-> DrugBatch(i, a[1], a[2], a[3], a[4], f[i])], R) :
            K \in SUBSET IDs, f \in [IDs -> BOOLEAN], R \in SUBSET IDs }

\* The process starts next to a document somebody else wrote or edited.
InitDoc ==
    /\ \E c \in AnyChains :
         /\ doc = to_json(c)
         /\ issued = DOMAIN c.batches \cup c.recalls
    /\ qr = <<>>
    /\ chain = [p \in Procs |-> empty]
    /\ st = [p \in Procs |-> "none"]
    /\ last = Call("init", "p1", 0, <<>>, FALSE, FALSE, FALSE, {}, "none")
    /\ run = [p \in Procs |-> NoRun]

\* A process that loads such a document and queries or recalls; it mints
\* nothing, so the batches stay the ones the document described.
NextDoc ==
    \/ New("p1") /\ UNCHANGED run
    \/ Verify("p1") /\ UNCHANGED run
    \/ Recall("p1") /\ UNCHANGED run
    \/ IsRecalled("p1") /\ UNCHANGED run
    \/ Exit("p1") /\ UNCHANGED run

SpecDoc == InitDoc /\ [][NextDoc]_vars

----------------------------------------------------------------------------
(* main: one invocation of the program per process *)

\* The identifier texts a command line may carry: those of the identifiers,
\* and one that is no identifier.
UuidTexts == { uuid_text(i) : i \in IDs } \cup {"zz"}

\* env::args(): the program name, then the command and its parameters.
Argv ==
    {<<"pharmachain">>, <<"pharmachain", "bogus">>, <<"pharmachain", "mint">>}
    \cup { <<"pharmachain", "mint">> \o a : a \in MintInputs }
    \cup { <<"pharmachain", c>> : c \in {"verify", "recall"} }
    \cup { <<"pharmachain", c, t>> : c \in {"verify", "recall"}, t \in UuidTexts }

\* The branch of main the arguments select.
command(args) ==
    IF Len(args) < 2 THEN "usage"
    ELSE CASE args[2] = "mint" ->
                IF Len(args) # 6 THEN "usage" ELSE "mint"
           [] args[2] = "verify" ->
                IF Len(args) # 3 THEN "usage"
                ELSE IF parse_str(args[3]) = {} THEN "invalid_uuid" ELSE "verify"
           [] args[2] = "recall" ->
                IF Len(args) # 3 THEN "usage"
                ELSE IF parse_str(args[3]) = {} THEN "invalid_uuid" ELSE "recall"
           [] OTHER -> "unknown"

\* main starts: it collects the arguments and builds the chain.
MainStart(p) ==
    /\ New(p)
    /\ \E a \in Argv :
         run' = [run EXCEPT ![p] =
                   [args |-> a, pc |-> IF last'.panic THEN "dead" ELSE "loaded",
                    out |-> NoOut, opened |-> doc.exists, saved |-> FALSE]]

\* main prints a usage line, or the unknown-command line, and returns.
MainUsage(p) ==
    /\ run[p].pc = "loaded"
    /\ command(run[p].args) \in {"usage", "unknown"}
    /\ run' = [run EXCEPT ![p].pc = "done",
                          ![p].out = [NoOut EXCEPT !.kind = command(run[p].args)]]
    /\ last' = Call("usage", p, 0, <<>>, FALSE, FALSE, FALSE, {}, "none")
    /\ UNCHANGED <<doc, qr, chain, st, issued>>

\* Uuid::parse_str(..).expect("Invalid UUID") panics.
MainInvalidUuid(p) ==
    /\ run[p].pc = "loaded"
    /\ command(run[p].args) = "invalid_uuid"
    /\ Gone(p)
    /\ run' = [run EXCEPT ![p].pc = "dead"]
    /\ last' = Call("parse_str", p, 0, <<>>, TRUE, FALSE, FALSE, {}, "none")
    /\ UNCHANGED <<doc, qr, issued>>

MainMint(p) ==
    /\ run[p].pc = "loaded"
    /\ command(run[p].args) = "mint"
    /\ Mint(p)
    /\ last'.input = SubSeq(run[p].args, 3, 6)
    /\ run' = [run EXCEPT
                 ![p].pc = IF last'.panic THEN "dead" ELSE "done",
                 ![p].saved = TRUE,
                 ![p].out = IF last'.panic THEN NoOut
                            ELSE [kind |-> "minted", id |-> last'.id, rec |-> {}]]

MainVerify(p) ==
    /\ run[p].pc = "loaded"
    /\ command(run[p].args) = "verify"
    /\ Verify(p)
    /\ last'.id \in parse_str(run[p].args[3])
    /\ run' = [run EXCEPT
                 ![p].pc = "done",
                 ![p].out = IF last'.retRec = {}
                            THEN [NoOut EXCEPT !.kind = "not_found"]
                            ELSE [kind |-> "record", id |-> last'.id,
                                  rec |-> last'.retRec]]

MainRecall(p) ==
    /\ run[p].pc = "loaded"
    /\ command(run[p].args) = "recall"
    /\ Recall(p)
    /\ last'.id \in parse_str(run[p].args[3])
    /\ run' = [run EXCEPT
                 ![p].pc = IF last'.panic THEN "dead" ELSE "done",
                 ![p].saved = last'.saved,
                 ![p].out = IF last'.panic THEN NoOut
                            ELSE IF last'.retBool
                            THEN [kind |-> "recalled", id |-> last'.id, rec |-> {}]
                            ELSE [NoOut EXCEPT !.kind = "not_found"]]

\* main returns.
MainExit(p) ==
    /\ run[p].pc = "done"
    /\ Exit(p)
    /\ run' = [run EXCEPT ![p].pc = "exited"]

\* One invocation after the other.
NextMain ==
    \/ MainStart("p1")
    \/ MainUsage("p1")
    \/ MainInvalidUuid("p1")
    \/ MainMint("p1")
    \/ MainVerify("p1")
    \/ MainRecall("p1")
    \/ MainExit("p1")

SpecMain == Init /\ [][NextMain]_vars

----------------------------------------------------------------------------
(* Two instances of the program at once *)

\* The step meets no failure of the storage and no panic.
NoFault == last'.io \in {"ok", "none"} /\ ~last'.panic

\* Before the two start: no document yet, or the document and the image
\* file an earlier mint has left.
InitConc ==
    /\ \/ doc = NoDoc /\ qr = <<>> /\ issued = {}
       \/ \E id \in IDs, a \in MintInputs :
            LET r == mint_batch(empty, NoDoc, <<>>, id, a, "ok", "ok") IN
            doc = r.doc /\ qr = r.qr /\ issued = {id}
    /\ chain = [p \in Procs |-> empty]
    /\ st = [p \in Procs |-> "none"]
    /\ last = Call("init", "p1", 0, <<>>, FALSE, FALSE, FALSE, {}, "none")
    /\ run = [p \in Procs |-> NoRun]

\* Two processes, each invoked once: it loads, then mints or recalls, then
\* returns; their steps interleave in any order and nothing locks the
\* document.  The storage does not fail, so whatever is lost is lost to the
\* interleaving.
NextConc ==
    \E p \in Procs :
        \/ /\ run[p].pc = "idle"
           /\ MainStart(p)
           /\ command(run'[p].args) \in {"mint", "recall"}
           /\ NoFault
        \/ MainMint(p) /\ NoFault
        \/ MainRecall(p) /\ NoFault
        \/ MainExit(p)

SpecConc == InitConc /\ [][NextConc]_vars

TypeOK ==
    /\ st \in [Procs -> {"none", "live"}]
    /\ issued \subseteq IDs
    /\ \A p \in Procs : DOMAIN chain[p].batches \subseteq IDs

----------------------------------------------------------------------------
(* Properties *)

Live(p) == st[p] = "live"

\* C1: in every chain, for every identifier that is a key of the batch map,
\* is_recalled(id) equals the recalled flag of the record stored under id.
ConsistencyInvariant ==
    \A p \in Procs : \A id \in DOMAIN chain[p].batches :
        is_recalled(chain[p], id) = chain[p].batches[id].recalled

\* is_recalled has just answered true on a chain that also holds a batch
\* that is not recalled.
ConsistencyWitness ==
    /\ last.op = "is_recalled" /\ last.retBool
    /\ Live(last.p)
    /\ last.id \in DOMAIN chain[last.p].batches
    /\ \E j \in DOMAIN chain[last.p].batches :
          ~chain[last.p].batches[j].recalled

\* C2: writing any chain the program holds with save() and reading the
\* document back with new() gives a chain with the same batches (id, name,
\* manufacturer, batch number, expiry date, recalled flag) and the same
\* recalled set.
RoundTrip ==
    \A p \in Procs :
        LET s == save(doc, chain[p], "ok") IN
        /\ ~s.panic
        /\ new(s.doc, "ok") = [panic |-> FALSE, chain |-> chain[p]]

\* A process has just loaded, from a document a save wrote, a chain of two
\* batches, one recalled and in the recalled set, one not.
RoundTripWitness ==
    /\ last.op = "new" /\ ~last.panic
    /\ doc.valid
    /\ \E i, j \in DOMAIN chain[last.p].batches :
          /\ chain[last.p].batches[i].recalled /\ i \in chain[last.p].recalls
          /\ ~chain[last.p].batches[j].recalled

\* C3: recall_batch on an identifier that is not a key of the batch map
\* returns false, leaves the batch map and the recalled set as they were,
\* does not call save, and leaves the document as it was.
RecallUnknown ==
    [][ (last'.op = "recall" /\ last'.id \notin DOMAIN chain[last'.p].batches)
        => /\ ~last'.retBool
           /\ ~last'.saved
           /\ ~last'.panic
           /\ chain' = chain
           /\ st' = st
           /\ doc' = doc ]_vars

\* recall_batch has just returned false on a chain that holds a batch and
\* has a document written by save.
RecallUnknownWitness ==
    /\ last.op = "recall" /\ ~last.retBool
    /\ Live(last.p)
    /\ DOMAIN chain[last.p].batches # {}
    /\ last.id \notin DOMAIN chain[last.p].batches
    /\ doc.valid

\* What verify_batch and is_recalled answer for X once mint_batch has
\* returned X.
MintThenVerify ==
    (last'.op = "mint" /\ ~last'.panic)
    => LET p == last'.p
           X == last'.id
           a == last'.input
       IN  /\ verify_batch(chain'[p], X)
                = {DrugBatch(X, a[1], a[2], a[3], a[4], FALSE)}
           /\ ~is_recalled(chain'[p], X)

\* What they answer once recall_batch(X) has returned true.
RecallThenVerify ==
    (last'.op = "recall" /\ last'.retBool /\ ~last'.panic)
    => LET p == last'.p
           X == last'.id
       IN  /\ verify_batch(chain[p], X) # {}
           /\ verify_batch(chain'[p], X)
                = { [b EXCEPT !.recalled = TRUE] : b \in verify_batch(chain[p], X) }
           /\ is_recalled(chain'[p], X)

\* C4: when mint_batch(name, manufacturer, batch_number, expiry_date) returns
\* X, verify_batch(X) gives the batch with id X, the four arguments as given
\* and recalled = false, and is_recalled(X) is false; when recall_batch(X)
\* then returns true, verify_batch(X) gives the same batch with recalled =
\* true and is_recalled(X) is true.
MintVerifyRecall == [][MintThenVerify /\ RecallThenVerify]_vars

\* recall_batch(X) has just returned true for a batch X minted by this
\* program (its image exists): the batch reads recalled.
MintVerifyRecallWitness ==
    /\ last.op = "recall" /\ last.retBool /\ ~last.panic
    /\ uuid_text(last.id) \in DOMAIN qr
    /\ \E b \in verify_batch(chain[last.p], last.id) :
          /\ b.recalled
          /\ <<uuid_text(b.id), b.name, b.manufacturer, b.batch_number,
                b.expiry_date>> = qr[uuid_text(last.id)]
    /\ is_recalled(chain[last.p], last.id)

\* C5: every mint_batch that returns gives an identifier no earlier mint gave
\* and that is no key of the batch map; the map then holds one batch more,
\* and every batch it held is still there, unchanged.
MintUniqueness ==
    [][ (last'.op = "mint" /\ ~last'.panic)
        => LET p == last'.p
               X == last'.id
           IN  /\ X \notin issued
               /\ X \notin DOMAIN chain[p].batches
               /\ Cardinality(DOMAIN chain'[p].batches)
                    = Cardinality(DOMAIN chain[p].batches) + 1
               /\ \A k \in DOMAIN chain[p].batches :
                     /\ k \in DOMAIN chain'[p].batches
                     /\ chain'[p].batches[k] = chain[p].batches[k] ]_vars

\* Two mints in a row on one chain have returned, and the chain holds a batch
\* for each.
MintUniquenessWitness ==
    /\ last.op = "mint" /\ ~last.panic
    /\ Cardinality(DOMAIN chain[last.p].batches) >= 2
    /\ issued = DOMAIN chain[last.p].batches

\* C6: a second recall_batch(id) right after a first that returned true leaves
\* the recalled flag true and id in the recalled set, and leaves the chain
\* and the document as the first call left them.
RecallIdempotent ==
    [][ (/\ last.op = "recall" /\ last.retBool /\ ~last.panic
         /\ last'.op = "recall" /\ last'.p = last.p /\ last'.id = last.id
         /\ last'.retBool /\ ~last'.panic)
        => LET p  == last'.p
               id == last'.id
           IN  /\ chain'[p].batches[id].recalled
               /\ id \in chain'[p].recalls
               /\ chain' = chain
               /\ doc' = doc ]_vars

\* C7: in a running process, a batch whose recalled flag is true and whose
\* id is in the recalled set keeps both through every call.
RecallOneWay ==
    [][ \A p \in Procs : \A id \in DOMAIN chain[p].batches :
          (/\ Live(p) /\ st'[p] = "live"
           /\ chain[p].batches[id].recalled /\ id \in chain[p].recalls)
          => /\ id \in DOMAIN chain'[p].batches
             /\ chain'[p].batches[id].recalled
             /\ id \in chain'[p].recalls ]_vars

\* mint_batch has just returned on a chain that holds a recalled batch.
RecallOneWayWitness ==
    /\ last.op = "mint" /\ ~last.panic
    /\ \E id \in DOMAIN chain[last.p].batches :
          /\ id # last.id
          /\ chain[last.p].batches[id].recalled
          /\ id \in chain[last.p].recalls

\* C8: in a running process, a key of the batch map stays a key through every
\* call, and the id, name, manufacturer, batch number and expiry date stored
\* under it do not change.
NoDeleteNoRewrite ==
    [][ \A p \in Procs : \A id \in DOMAIN chain[p].batches :
          (Live(p) /\ st'[p] = "live")
          => /\ id \in DOMAIN chain'[p].batches
             /\ chain'[p].batches[id].id = chain[p].batches[id].id
             /\ chain'[p].batches[id].name = chain[p].batches[id].name
             /\ chain'[p].batches[id].manufacturer
                  = chain[p].batches[id].manufacturer
             /\ chain'[p].batches[id].batch_number
                  = chain[p].batches[id].batch_number
             /\ chain'[p].batches[id].expiry_date
                  = chain[p].batches[id].expiry_date ]_vars

\* recall_batch has just set the flag of one batch of a chain that holds
\* another as well.
NoDeleteNoRewriteWitness ==
    /\ last.op = "recall" /\ last.retBool /\ ~last.panic
    /\ chain[last.p].batches[last.id].recalled
    /\ \E k \in DOMAIN chain[last.p].batches : k # last.id

\* C9: when mint_batch, or a recall_batch that found its batch, has returned,
\* save has been called and the document holds exactly the batch map and the
\* recalled set the chain holds.
PersistFollowsMutation ==
    (/\ last.op = "mint" \/ (last.op = "recall" /\ last.retBool)
     /\ ~last.panic)
    => /\ last.saved
       /\ doc = to_json(chain[last.p])
       /\ new(doc, "ok") = [panic |-> FALSE, chain |-> chain[last.p]]

\* C10: verify_batch(id) returns the batch stored under id, or nothing when
\* id is no key; it changes neither the chain nor the document nor any other
\* file, and does not call save.
VerifyReadOnly ==
    [][ last'.op = "verify"
        => LET p  == last'.p
               id == last'.id
           IN  /\ last'.retRec = IF id \in DOMAIN chain[p].batches
                                  THEN {chain[p].batches[id]} ELSE {}
               /\ ~last'.saved
               /\ ~last'.panic
               /\ chain' = chain
               /\ st' = st
               /\ doc' = doc
               /\ qr' = qr ]_vars

\* verify_batch has just returned a recalled batch, on a chain for which
\* another identifier is absent, with a document written by save.
VerifyReadOnlyWitness ==
    /\ last.op = "verify"
    /\ \E b \in last.retRec : b.recalled /\ b.id = last.id
    /\ IDs \ DOMAIN chain[last.p].batches # {}
    /\ doc.valid

\* new() on a document that is there and does not deserialize.
LoadOfCorrupt ==
    (/\ last'.op = "new" /\ last'.io = "ok"
     /\ doc.exists /\ from_json(doc) = {})
    => /\ ~last'.panic
       /\ st'[last'.p] = "live"
       /\ chain'[last'.p] = empty
       /\ doc' = doc

\* The first mutation after such a load (a mint: the chain is empty), when
\* save could open the file.
MintAfterCorrupt ==
    (/\ last'.op = "mint" /\ last'.io # "open_err"
     /\ doc.exists /\ from_json(doc) = {} /\ ~doc.cut)
    => LET a == last'.input
           c == PharmaChain(
                  insert(<<>>, last'.id,
                         DrugBatch(last'.id, a[1], a[2], a[3], a[4], FALSE)),
                  {})
       IN  /\ chain[last'.p] = empty
           /\ doc' # doc
           /\ last'.io = "ok" => doc' = to_json(c)
           /\ doc'.valid => from_json(doc') = {c}
           /\ ~doc'.valid => doc'.cut

\* C13: new() on a document that does not deserialize gives the empty chain,
\* does not abort and leaves the document as it is; the next mutation of
\* that process then replaces the document by one that holds only the chain
\* as it is after the load and that mutation (or by what a failed write
\* leaves of it), so that what the document held before is gone.
CorruptLoadLosesData == [][LoadOfCorrupt /\ MintAfterCorrupt]_vars

\* A process has just loaded the empty chain from a document that is there
\* and does not deserialize.
CorruptLoadWitness ==
    /\ last.op = "new" /\ last.io = "ok" /\ ~last.panic
    /\ doc = Corrupt
    /\ Live(last.p)
    /\ chain[last.p] = empty

\* C14: new() on a document that is there and cannot be opened, or cannot be
\* read, does not abort: the process goes on with the empty chain.
UnreadableRecovered ==
    [][ (/\ last'.op = "new" /\ doc.exists
         /\ last'.io \in {"open_err", "read_err"})
        => /\ ~last'.panic
           /\ st'[last'.p] = "live"
           /\ chain'[last'.p] = empty ]_vars

\* C19: in every chain, every key of the batch map maps to a batch whose id
\* is that key, and every identifier of the recalled set is a key of the
\* batch map.
KeysAndRecalls ==
    \A p \in Procs :
        /\ \A k \in DOMAIN chain[p].batches : chain[p].batches[k].id = k
        /\ chain[p].recalls \subseteq DOMAIN chain[p].batches

\* recall_batch has just returned true on a chain of two batches of which it
\* recalled one, and recall_batch on an unknown identifier has been possible.
KeysAndRecallsWitness ==
    /\ last.op = "recall" /\ last.retBool /\ ~last.panic
    /\ Cardinality(DOMAIN chain[last.p].batches) = 2
    /\ chain[last.p].recalls = {last.id}

\* C17: is_recalled(id) answers whether id is in the recalled set, whatever
\* the recalled flag of the batch under id says, also in a chain loaded from
\* a document in which the two disagree; it changes neither the chain nor the
\* document nor any other file, and does not call save.
IsRecalledReadsTheSet ==
    [][ last'.op = "is_recalled"
        => LET p  == last'.p
               id == last'.id
           IN  /\ last'.retBool = (id \in chain[p].recalls)
               /\ ~last'.saved
               /\ ~last'.panic
               /\ chain' = chain
               /\ st' = st
               /\ doc' = doc
               /\ qr' = qr ]_vars

\* is_recalled has just answered true for a batch whose flag is false, and
\* the document is still the one the chain was loaded from.
IsRecalledReadsTheSetWitness ==
    /\ last.op = "is_recalled" /\ last.retBool
    /\ last.id \in DOMAIN chain[last.p].batches
    /\ ~chain[last.p].batches[last.id].recalled
    /\ from_json(doc) = {chain[last.p]}

\* The arguments are no well-formed mint, verify or recall command.
NoCommand(args) == command(args) \in {"usage", "unknown"}

\* C11: an invocation whose arguments are no well-formed mint, verify or
\* recall command (no command, an unknown one, a wrong argument count)
\* prints the usage text and attempts no store access: it neither opens the
\* document for reading nor writes it.
UsageWithoutStoreAccess ==
    \A p \in Procs :
        (run[p].pc # "idle" /\ NoCommand(run[p].args))
        => /\ ~run[p].opened
           /\ ~run[p].saved
           /\ run[p].pc # "dead"
           /\ run[p].pc \in {"done", "exited"}
                => run[p].out.kind \in {"usage", "unknown"}

\* The document d holds the mutation that the printed line o reports: the
\* minted batch, or the recall of the batch.
Persisted(d, o) ==
    /\ from_json(d) # {}
    /\ \A c \in from_json(d) :
         /\ o.kind = "minted" => o.id \in DOMAIN c.batches
         /\ o.kind = "recalled"
              => /\ o.id \in c.recalls
                 /\ o.id \in DOMAIN c.batches
                 /\ c.batches[o.id].recalled

\* C12: a failing write of the document during mint or recall stops the
\* process, and no invocation has printed the minted id or the recalled
\* message while the document lacks that mutation.
WriteFailureIsFatal ==
    /\ (last.op \in {"mint", "recall"}
          /\ last.io \in {"open_err", "write_err", "flush_err"})
        => last.panic
    /\ \A p \in Procs :
         (run[p].pc = "done" /\ run[p].out.kind \in {"minted", "recalled"})
         => Persisted(doc, run[p].out)

\* A verify or recall command line whose identifier text is no identifier.
Malformed(args) ==
    /\ Len(args) = 3
    /\ args[2] \in {"verify", "recall"}
    /\ args[3] \notin { uuid_text(i) : i \in IDs }

\* C16: an invocation of verify or recall with a malformed identifier makes
\* no lookup and no recall, prints nothing, leaves the document and the
\* other files as they were, and, once the chain is loaded, can only stop
\* with a panic.
MalformedIdIsFatal ==
    [][ LET p == last'.p
        IN  Malformed(run'[p].args)
            => /\ last'.op \in {"new", "parse_str"}
               /\ doc' = doc
               /\ qr' = qr
               /\ run'[p].out = NoOut
               /\ ~run'[p].saved
               /\ run[p].pc = "loaded"
                    => (last'.op = "parse_str" /\ last'.panic
                        /\ run'[p].pc = "dead" /\ st'[p] = "none") ]_vars

\* An invocation with a malformed identifier has panicked in parse_str, with
\* a document at hand that holds a batch.
MalformedIdWitness ==
    /\ last.op = "parse_str" /\ last.panic
    /\ Malformed(run[last.p].args)
    /\ run[last.p].pc = "dead"
    /\ \E c \in from_json(doc) : DOMAIN c.batches # {}

\* C18: when the rendering step of a mint fails (save has returned and
\* mint_batch panics), the process is gone without having printed the
\* identifier, and the document already holds the new record.
RenderFailureKeepsMint ==
    (last.op = "mint" /\ last.panic /\ last.io \in {"ok", "flush_err"})
    => /\ run[last.p].pc = "dead"
       /\ run[last.p].out = NoOut
       /\ \E c \in from_json(doc) :
            /\ last.id \in DOMAIN c.batches
            /\ c.batches[last.id] =
                 DrugBatch(last.id, last.input[1], last.input[2],
                           last.input[3], last.input[4], FALSE)

\* C15: save writes the chain of the calling process and nothing else, so
\* with two instances running at once, each loading, changing and saving
\* without a lock, a successful mint or recall leaves the document holding
\* exactly that process's chain: what the other instance has persisted since
\* this one loaded is gone, although both report success.
LastWriterWins ==
    [][ (last'.op \in {"mint", "recall"} /\ last'.saved /\ ~last'.panic)
        => from_json(doc') = {chain'[last'.p]} ]_vars

\* Both instances are running and have printed their success line, the
\* document is whole, and it lacks the mutation of one of them.
LostUpdateWitness ==
    /\ \A p \in Procs :
         run[p].pc = "done" /\ run[p].out.kind \in {"minted", "recalled"}
    /\ from_json(doc) # {}
    /\ \E p \in Procs : ~Persisted(doc, run[p].out)

====
